---- MODULE Spec2Model ----
(***************************************************************************)
(* Model of the users-service lifecycle operations                         *)
(* (app/services/user_service.py).                                         *)
(*                                                                         *)
(* Every request runs as a coroutine on one event loop: the code between   *)
(* two awaits is one atomic step.  The awaits are broker.connect() and     *)
(* broker.publish_message(); the database calls are synchronous.  The      *)
(* broker is the environment: connect() answers True, False or raises,     *)
(* publish_message() returns or raises.                                    *)
(***************************************************************************)
EXTENDS Integers, Sequences, FiniteSets, TLC

\* ------------------------------------------------------------------ bounds
Procs == {"p1", "p2"}
MaxOps == 2
MaxUsers == 2
MaxTokens == 2
MaxTime == 40
ClockStep == 40

\* --------------------------------------------------------------- constants
TokenTTL == 30
RABBIT_DELETE_TYPE == "DELETE"
RABBIT_UPDATE_TYPE == "UPDATE"
RABBIT_CREATE_TYPE == "CREATE"

None == -1
Unset == "unset"
Null == "null"

WithAt == {"a@x", "b@x"}
CreateEmails == WithAt \cup {"nomail"}
Passwords == {"pw1", "pw2"}

\* db: the users table; nextId, nextTok: the next id of the storage and the
\* next value of secrets.token_urlsafe; now: datetime.now(); proc: the
\* coroutines; published: the message last handed to the broker; ret: the
\* response last returned; retired: what became of each token that left its
\* row; nops: the number of requests so far
\* issuedTo: the user each token was issued for; verifiedOk: the users for
\* whom a verify_email has returned without error
VARIABLES db, nextId, nextTok, now, proc, published, ret, retired, issuedTo,
          verifiedOk, nops

vars == <<db, nextId, nextTok, now, proc, published, ret, retired, issuedTo,
          verifiedOk, nops>>

\* ------------------------------------------------------------------- rows
\* The attributes of User that the service reads and writes.
\* verify_email_token and verify_email_token_expiration are the attributes
\* send_verification_email and verify_email assign and query; id -1 is "no
\* object".
NoUser ==
  [id |-> None, email |-> "", email_verified |-> FALSE, name |-> "",
   surname |-> "", hashed_password |-> "", verify_email_token |-> None,
   verify_email_token_expiration |-> None]

\* User(**payload.model_dump()): the object before it is flushed
NewUser(payload) ==
  [NoUser EXCEPT !.email = payload.email, !.name = payload.name,
                 !.surname = payload.surname,
                 !.hashed_password = payload.hashed_password]

EmailInUseNever(d, email) == FALSE

\* db.query(User).filter_by(email=...).first() is not None
EmailInUse(d, email) == \E i \in DOMAIN d : d[i].email = email

ValidEmailAlways(email) == TRUE

\* payload.email and "@" in payload.email
ValidEmail(email) == email # "" /\ email \in WithAt

DbInsertVerified(d, id, obj) ==
  [i \in DOMAIN d \cup {id} |->
     IF i = id THEN [obj EXCEPT !.id = id, !.email_verified = TRUE] ELSE d[i]]

\* db.add(user); db.commit(): storage assigns the id and the column defaults
\* (created_at and updated_at, set by the storage clock, are left out of the rows)
DbInsert(d, id, obj) ==
  [i \in DOMAIN d \cup {id} |->
     IF i = id THEN [obj EXCEPT !.id = id, !.email_verified = FALSE] ELSE d[i]]

\* db.commit() of a modified object: UPDATE of its row
DbUpdate(d, id, obj) == [d EXCEPT ![id] = obj]

\* db.delete(user); db.commit()
DbDelete(d, id) == [i \in DOMAIN d \ {id} |-> d[i]]

\* get_user: db.get(User, user_id), NoUser for None
GetUser(d, id) == IF id \in DOMAIN d THEN d[id] ELSE NoUser

\* db.query(User).filter(User.verify_email_token == token).first()
FindByToken(d, token) == {i \in DOMAIN d : d[i].verify_email_token = token}

\* db.refresh(user): reload the attributes of the object from its row
RefreshSkip(d, id, obj) == obj
Refresh(d, id, obj) == d[id]

\* ----------------------------------------------------------------- events
MessageFull(user, operation) ==
  [id |-> user.id, email |-> user.email,
   email_verified |-> user.email_verified, name |-> user.name,
   surname |-> user.surname, hashed_password |-> user.hashed_password]

\* the message built in update_services
Message(user, operation) ==
  IF operation # RABBIT_DELETE_TYPE
  THEN [id |-> user.id, email |-> user.email,
        email_verified |-> user.email_verified, name |-> user.name,
        surname |-> user.surname, hashed_password |-> user.hashed_password]
  ELSE [id |-> user.id]

Link(token) == <<"https://", "SERVER_URL", "/verify?token=", token>>

\* the email_request built in send_verification_email
EmailRequest(user, token) ==
  [to |-> user.email, subject |-> "Verifica il tuo Account Orientati",
   template_name |-> "verify_email_v1",
   context |-> [username |-> <<user.surname, " ", user.name>>,
                link |-> Link(token)]]

\* broker_instance.publish_message(exchange, type, message)
Event(topic, type, body) == [topic |-> topic, type |-> type, body |-> body]

NoEvent == Event("none", "none", [id |-> None])

\* the exchange keeps the message most recently handed to the broker
Publish(pub, event) == event

\* the arguments of a request: the fields of UserCreate / UserUpdate and the
\* old and new password of change_user_password (hashed_password of a create
\* is in "new")
NoArg ==
  [email |-> Unset, name |-> Unset, surname |-> Unset, old |-> Unset,
   new |-> Unset]

\* ------------------------------------------------------------ coroutines
\* pc: "done" (no request in flight), "us_connect"/"us_publish" (awaits of
\* update_services), "sve_connect"/"sve_publish" (awaits of
\* send_verification_email)
IdleProc ==
  [pc |-> "done", op |-> "none", uid |-> None, user |-> NoUser,
   committed |-> NoUser, operation |-> "none", token |-> None,
   result |-> "none", exc |-> "none", dropped |-> FALSE, arg |-> NoArg]

\* the operation returns or raises: its locals are gone, the response stays
Respond(pr, res) == [pr EXCEPT !.pc = "done", !.result = res]

\* the response the caller of the coroutine gets
Response(pr) ==
  [op |-> pr.op, uid |-> pr.uid, token |-> pr.token,
   result |-> pr.result, exc |-> pr.exc, dropped |-> pr.dropped,
   arg |-> pr.arg]

Tokens == 1..MaxTokens

\* a row as create_user and send_verification_email leave it
StoredUser(id, email, token) ==
  [NoUser EXCEPT !.id = id, !.email = email, !.name = "n1", !.surname = "s1",
     !.hashed_password = "pw1", !.verify_email_token = token,
     !.verify_email_token_expiration = IF token = None THEN None ELSE TokenTTL]

\* the stores the service starts on: empty, or as left by an earlier
\* send_verification_email for user 1 at time 0 (in its create, or in a
\* request_email_verification after it)
InitStores == { <<>>, <<StoredUser(1, "a@x", 1)>> }

Init ==
  /\ db \in InitStores
  /\ nextId = Len(db) + 1
  /\ nextTok = IF db = <<>> THEN 1 ELSE 2
  /\ now = 0
  /\ proc = [p \in Procs |-> IdleProc]
  /\ published = NoEvent
  /\ retired = [t \in Tokens |-> "no"]
  /\ issuedTo = [t \in Tokens |-> IF FindByToken(db, t) = {} THEN None
                                  ELSE CHOOSE i \in FindByToken(db, t) : TRUE]
  /\ ret = Response(IdleProc)
  /\ verifiedOk = {}
  /\ nops = 0

\* a request is taken up by the first coroutine that is free (the coroutines
\* are interchangeable)
CanStart(p) ==
  /\ proc[p].pc = "done"
  /\ nops < MaxOps
  /\ p = "p1" \/ proc["p1"].pc # "done"

\* except Exception as e: raise OrientatiException(exc=e, ...)
RaiseSwallowed(pr, exc) == [pr EXCEPT !.pc = "done", !.result = "ok", !.exc = exc]
Raise(pr, exc) == [pr EXCEPT !.pc = "done", !.result = "error", !.exc = exc]

\* coroutine p goes on as pr, or hands its response to the caller (the
\* arguments are kept on record while the request runs, and in the response
\* of a request that ends before any await)
Continue(p, pr) ==
  IF pr.pc = "done"
  THEN /\ proc' = [proc EXCEPT ![p] = IdleProc]
       /\ ret' = Response(IF proc[p].pc = "done" THEN pr
                                                 ELSE [pr EXCEPT !.arg = NoArg])
       /\ verifiedOk' = IF pr.op = "verify_email" /\ pr.result = "ok"
                        THEN verifiedOk \cup {pr.uid} ELSE verifiedOk
  ELSE /\ proc' = [proc EXCEPT ![p] = pr]
       /\ UNCHANGED <<ret, verifiedOk>>

CreatePayloads ==
  [email : CreateEmails, name : {"n1"}, surname : {"s1"},
   hashed_password : {"pw1"}]

\* create_user up to its first await
CreateUser(p, payload) ==
  /\ CanStart(p)
  /\ nops' = nops + 1
  /\ LET start == [IdleProc EXCEPT !.op = "create", !.arg =
                      [NoArg EXCEPT !.email = payload.email,
                                    !.name = payload.name,
                                    !.surname = payload.surname,
                                    !.new = payload.hashed_password]] IN
     IF EmailInUse(db, payload.email)
     THEN /\ Continue(p, [start EXCEPT !.result = "EmailTaken"])
          /\ UNCHANGED <<db, nextId>>
     ELSE IF ~ValidEmail(payload.email)
     THEN /\ Continue(p, [start EXCEPT !.result = "InvalidEmail"])
          /\ UNCHANGED <<db, nextId>>
     ELSE /\ nextId <= MaxUsers
          /\ db' = DbInsert(db, nextId, NewUser(payload))
          /\ nextId' = nextId + 1
          /\ Continue(p, [start EXCEPT !.pc = "us_connect", !.uid = nextId,
                           !.user = Refresh(db', nextId, NewUser(payload)),
                           !.committed = db'[nextId],
                           !.operation = RABBIT_CREATE_TYPE])
  /\ UNCHANGED <<nextTok, now, published, retired, issuedTo>>

\* the statements after "await update_services(...)" of each operation
AfterUpdateServices(pr) ==
  IF pr.op = "create"
  THEN [pr EXCEPT !.pc = "sve_connect"]
  ELSE Respond(pr, "ok")

\* update_services: the answer of "await broker_instance.connect()"
UsConnect(p, connected) ==
  /\ proc[p].pc = "us_connect"
  /\ Continue(p, CASE connected = "raise" -> Raise(proc[p], "ConnectError")
         [] connected = "true"  -> [proc[p] EXCEPT !.pc = "us_publish"]
         [] connected = "false" ->
              AfterUpdateServices([proc[p] EXCEPT !.dropped = TRUE]))
  /\ UNCHANGED <<db, nextId, nextTok, now, published, retired, nops, issuedTo>>

\* update_services: the answer of "await broker_instance.publish_message(...)"
UsPublish(p, sent) ==
  /\ proc[p].pc = "us_publish"
  /\ IF sent
     THEN /\ published' = Publish(published,
                Event("users", proc[p].operation,
                      Message(proc[p].user, proc[p].operation)))
          /\ Continue(p, AfterUpdateServices(proc[p]))
     ELSE /\ Continue(p, Raise(proc[p], "PublishError"))
          /\ UNCHANGED published
  /\ UNCHANGED <<db, nextId, nextTok, now, retired, nops, issuedTo>>

\* the tokens that a write took out of the table are marked with its kind
Retire(r, d, e, how) ==
  [t \in DOMAIN r |->
     IF FindByToken(d, t) # {} /\ FindByToken(e, t) = {} THEN how ELSE r[t]]

IssueTokenKeepOld(row, token, t) ==
  IF row.verify_email_token # None
  THEN [row EXCEPT !.email_verified = FALSE,
                   !.verify_email_token_expiration = t + TokenTTL]
  ELSE [row EXCEPT !.email_verified = FALSE, !.verify_email_token = token,
                   !.verify_email_token_expiration = t + TokenTTL]

IssueTokenKeepVerified(row, token, t) ==
  [row EXCEPT !.verify_email_token = token,
              !.verify_email_token_expiration = t + TokenTTL]

IssueTokenSetsVerified(row, token, t) ==
  [row EXCEPT !.email_verified = TRUE, !.verify_email_token = token,
              !.verify_email_token_expiration = t + TokenTTL]

\* the token pair written by send_verification_email
IssueToken(row, token, t) ==
  [row EXCEPT !.email_verified = FALSE, !.verify_email_token = token,
              !.verify_email_token_expiration = t + TokenTTL]

\* send_verification_email: the answer of connect(), and on True the token
\* write up to "await publish_message"
SveConnect(p, connected) ==
  /\ proc[p].pc = "sve_connect"
  /\ CASE connected = "raise" ->
            /\ Continue(p, Raise(proc[p], "ConnectError"))
            /\ UNCHANGED <<db, nextTok, retired, issuedTo>>
       [] connected = "false" ->
            /\ Continue(p, Respond([proc[p] EXCEPT !.dropped = TRUE], "ok"))
            /\ UNCHANGED <<db, nextTok, retired, issuedTo>>
       [] connected = "true" ->
            /\ nextTok <= MaxTokens
            /\ nextTok' = nextTok + 1
            /\ IF proc[p].uid \in DOMAIN db
               THEN /\ db' = DbUpdate(db, proc[p].uid,
                                IssueToken(db[proc[p].uid], nextTok, now))
                    /\ retired' = Retire(retired, db, db', "overwritten")
                    /\ issuedTo' = [issuedTo EXCEPT ![nextTok] = proc[p].uid]
                    /\ Continue(p, [proc[p] EXCEPT !.pc = "sve_publish",
                                                    !.token = nextTok,
                                                    !.committed = db'[proc[p].uid]])
               ELSE /\ Continue(p, Raise(proc[p], "AttributeError"))
                    /\ UNCHANGED <<db, retired, issuedTo>>
  /\ UNCHANGED <<nextId, now, published, nops>>

\* send_verification_email: the answer of publish_message on exchange "email"
SvePublish(p, sent) ==
  /\ proc[p].pc = "sve_publish"
  /\ IF sent
     THEN /\ published' = Publish(published,
                Event("email", "email_notification",
                      EmailRequest(proc[p].user, proc[p].token)))
          /\ Continue(p, Respond(proc[p], "ok"))
     ELSE /\ Continue(p, Raise(proc[p], "PublishError"))
          /\ UNCHANGED published
  /\ UNCHANGED <<db, nextId, nextTok, now, retired, nops, issuedTo>>

Ids == 1..MaxUsers

UpdatePayloads ==
  [email : {Unset, Null} \cup WithAt, name : {Unset, "n2"},
   surname : {Unset}]

\* for field, value in payload.model_dump(exclude_unset=True).items():
\*     setattr(user, field, value)
SetAttrs(row, payload) ==
  [row EXCEPT
     !.email   = IF payload.email = Unset THEN @ ELSE payload.email,
     !.name    = IF payload.name = Unset THEN @ ELSE payload.name,
     !.surname = IF payload.surname = Unset THEN @ ELSE payload.surname]

\* the columns are NOT NULL: the commit of a null raises
NotNullViolated(obj) ==
  obj.email = Null \/ obj.name = Null \/ obj.surname = Null

\* update_user up to its first await (a payload that was committed is kept on
\* record)
UpdateUser(p, user_id, payload) ==
  /\ CanStart(p)
  /\ nops' = nops + 1
  /\ LET start == [IdleProc EXCEPT !.op = "update", !.uid = user_id] IN
     IF user_id \notin DOMAIN db
     THEN /\ Continue(p, [start EXCEPT !.result = "NotFound"])
          /\ UNCHANGED db
     ELSE LET obj == SetAttrs(db[user_id], payload) IN
          IF NotNullViolated(obj)
          THEN /\ Continue(p, Raise(start, "IntegrityError"))
               /\ UNCHANGED db
          ELSE /\ db' = DbUpdate(db, user_id, obj)
               /\ Continue(p, [start EXCEPT !.pc = "us_connect",
                       !.user = Refresh(db', user_id, obj),
                       !.committed = db'[user_id],
                       !.operation = RABBIT_UPDATE_TYPE,
                       !.arg = [NoArg EXCEPT !.email = payload.email,
                                             !.name = payload.name,
                                             !.surname = payload.surname]])
  /\ UNCHANGED <<nextId, nextTok, now, published, retired, issuedTo>>

CredentialMatchesAny(row, old_password) == TRUE

\* not (user.hashed_password != old_password)
CredentialMatches(row, old_password) == row.hashed_password = old_password

\* change_user_password up to its first await
ChangeUserPassword(p, user_id, old_password, new_password) ==
  /\ CanStart(p)
  /\ nops' = nops + 1
  /\ LET start == [IdleProc EXCEPT !.op = "change_password", !.uid = user_id,
                      !.arg = [NoArg EXCEPT !.old = old_password,
                                            !.new = new_password]] IN
     IF user_id \notin DOMAIN db \/ ~CredentialMatches(db[user_id], old_password)
     THEN /\ Continue(p, [start EXCEPT !.result = "false"])
          /\ UNCHANGED db
     ELSE LET obj == [db[user_id] EXCEPT !.hashed_password = new_password] IN
          /\ db' = DbUpdate(db, user_id, obj)
          /\ Continue(p, [start EXCEPT !.pc = "us_connect",
                  !.user = Refresh(db', user_id, obj),
                  !.committed = db'[user_id],
                  !.operation = RABBIT_UPDATE_TYPE])
  /\ UNCHANGED <<nextId, nextTok, now, published, retired, issuedTo>>

\* delete_user up to its first await
DeleteUser(p, user_id) ==
  /\ CanStart(p)
  /\ nops' = nops + 1
  /\ LET start == [IdleProc EXCEPT !.op = "delete", !.uid = user_id] IN
     IF user_id \notin DOMAIN db
     THEN /\ Continue(p, [start EXCEPT !.result = "false"])
          /\ UNCHANGED db
     ELSE /\ db' = DbDelete(db, user_id)
          /\ Continue(p, [start EXCEPT !.pc = "us_connect", !.user = db[user_id],
                  !.operation = RABBIT_DELETE_TYPE])
  /\ UNCHANGED <<nextId, nextTok, now, published, retired, issuedTo>>

\* request_email_verification up to the first await of send_verification_email
RequestEmailVerification(p, user_id) ==
  /\ CanStart(p)
  /\ nops' = nops + 1
  /\ LET start == [IdleProc EXCEPT !.op = "request_email_verification",
                                   !.uid = user_id] IN
     IF user_id \notin DOMAIN db
     THEN Continue(p, [start EXCEPT !.result = "NotFound"])
     ELSE Continue(p, [start EXCEPT !.pc = "sve_connect", !.user = db[user_id]])
  /\ UNCHANGED <<db, nextId, nextTok, now, published, retired, issuedTo>>

RedeemKeepToken(row) == [row EXCEPT !.email_verified = TRUE]

RedeemKeepExpiration(row) ==
  [row EXCEPT !.email_verified = TRUE, !.verify_email_token = None]

\* the redemption written by verify_email
Redeem(row) ==
  [row EXCEPT !.email_verified = TRUE, !.verify_email_token = None,
              !.verify_email_token_expiration = None]

IsExpiredReversed(row, t) == row.verify_email_token_expiration > t

\* user.verify_email_token_expiration < datetime.now()
IsExpired(row, t) == row.verify_email_token_expiration < t

\* verify_email up to its first await
VerifyEmail(p, token) ==
  /\ CanStart(p)
  /\ nops' = nops + 1
  /\ LET start == [IdleProc EXCEPT !.op = "verify_email", !.token = token] IN
     IF FindByToken(db, token) = {}
     THEN /\ Continue(p, [start EXCEPT !.result = "NotFound"])
          /\ UNCHANGED <<db, retired>>
     ELSE LET user_id == CHOOSE i \in FindByToken(db, token) : TRUE IN
          IF IsExpired(db[user_id], now)
          THEN /\ Continue(p, [start EXCEPT !.uid = user_id, !.result = "Expired"])
               /\ UNCHANGED <<db, retired>>
          ELSE LET obj == Redeem(db[user_id]) IN
               /\ db' = DbUpdate(db, user_id, obj)
               /\ retired' = Retire(retired, db, db', "redeemed")
               /\ Continue(p, [start EXCEPT !.pc = "us_connect", !.uid = user_id,
                       !.user = Refresh(db', user_id, obj),
                       !.committed = db'[user_id],
                       !.operation = RABBIT_UPDATE_TYPE])
  /\ UNCHANGED <<nextId, nextTok, now, published, issuedTo>>

\* the clock of datetime.now()
Tick ==
  /\ now + ClockStep <= MaxTime
  /\ now' = now + ClockStep
  /\ UNCHANGED <<db, nextId, nextTok, proc, published, ret, retired, nops, issuedTo,
                 verifiedOk>>

Connected == {"true", "false", "raise"}

Next ==
  \/ \E p \in Procs, payload \in CreatePayloads : CreateUser(p, payload)
  \/ \E p \in Procs, i \in Ids, payload \in UpdatePayloads : UpdateUser(p, i, payload)
  \/ \E p \in Procs, i \in Ids, o \in Passwords, n \in Passwords :
       ChangeUserPassword(p, i, o, n)
  \/ \E p \in Procs, i \in Ids : DeleteUser(p, i)
  \/ \E p \in Procs, i \in Ids : RequestEmailVerification(p, i)
  \/ \E p \in Procs, t \in Tokens : VerifyEmail(p, t)
  \/ \E p \in Procs, c \in Connected : UsConnect(p, c)
  \/ \E p \in Procs, s \in BOOLEAN : UsPublish(p, s)
  \/ \E p \in Procs, c \in Connected : SveConnect(p, c)
  \/ \E p \in Procs, s \in BOOLEAN : SvePublish(p, s)
  \/ Tick

\* ------------------------------------------------------------ properties
\* a request starts in this step; StartedRec is what it has done by its first
\* await (or its response, when it ends before any await)
Started == nops' = nops + 1

StartedRec ==
  IF \E p \in Procs : proc'[p] # proc[p]
  THEN Response(proc'[CHOOSE p \in Procs : proc'[p] # proc[p]])
  ELSE ret'

Holders(t) == FindByToken(db, t)

\* coroutine p gets the answer of publish_message on exchange "users" and it
\* is not an exception
UsPublished(p) ==
  /\ proc[p].pc = "us_publish"
  /\ \/ proc'[p].pc = "sve_connect"
     \/ proc'[p].pc = "done" /\ ret' = Response(Respond(proc[p], "ok"))

\* coroutine p gets an exception from publish_message
PublishFailed(p) ==
  /\ proc[p].pc \in {"us_publish", "sve_publish"}
  /\ proc'[p].pc = "done"
  /\ ret'.exc = "PublishError"

\* C1: no two stored users have the same email
C1_UniqueEmail ==
  \A i, j \in DOMAIN db : i # j => db[i].email # db[j].email

\* C2: a CREATE or UPDATE event published by an operation carries the row
\* that operation committed, and a DELETE event is published when the row of
\* its id is no longer stored
C2_CommitBeforePublish ==
  [][\A p \in Procs : UsPublished(p) =>
       /\ published'.topic = "users"
       /\ published'.type = proc[p].operation
       /\ IF proc[p].operation = RABBIT_DELETE_TYPE
          THEN /\ published'.body = [id |-> proc[p].uid]
               /\ proc[p].uid \notin DOMAIN db
          ELSE /\ proc[p].committed # NoUser
               /\ proc[p].committed.id = proc[p].uid
               /\ published'.body = Message(proc[p].committed, proc[p].operation)]_vars

C2_Witness ==
  /\ published.topic = "users"
  /\ published.type = RABBIT_UPDATE_TYPE
  /\ published.body.id \in DOMAIN db
  /\ published.body = Message(db[published.body.id], RABBIT_UPDATE_TYPE)
  /\ published.body.name = "n2"

\* C3: when publish_message raises after the commit, the caller gets an error
\* and the store is left as it is (nothing is rolled back)
C3_NoRollbackOnPublishFailure ==
  [][\A p \in Procs : PublishFailed(p) =>
       /\ ret'.result = "error"
       /\ ret'.op = proc[p].op
       /\ db' = db]_vars

C3_Witness ==
  /\ ret.exc = "PublishError"
  /\ ret.result = "error"
  /\ ret.op = "update"
  /\ ret.uid \in DOMAIN db
  /\ db[ret.uid].name = "n2"

\* C4: an operation during which the broker connection could not be
\* established does not return successfully
C4_NoSilentDrop == ~(ret.dropped /\ ret.result = "ok")

C10_RequestIssuesToken ==
  [][/\ \A p \in Procs :
          (/\ proc[p].op = "request_email_verification"
           /\ proc[p].pc # "done"
           /\ proc'[p].pc = "done"
           /\ ret'.result = "ok") =>
            /\ ret'.token # None
            /\ published' = Event("email", "email_notification",
                                  EmailRequest(proc[p].user, ret'.token))
     /\ \A p \in Procs :
          (/\ proc[p].op = "request_email_verification"
           /\ proc[p].pc = "sve_connect"
           /\ proc'[p].pc = "sve_publish") =>
            /\ db'[proc[p].uid].verify_email_token = proc'[p].token
            /\ db'[proc[p].uid].verify_email_token_expiration = now + TokenTTL
     /\ (/\ Started
         /\ StartedRec.op = "request_email_verification"
         /\ StartedRec.uid \notin DOMAIN db) =>
            /\ StartedRec.result = "NotFound"
            /\ db' = db
            /\ nextTok' = nextTok]_vars

\* coroutine p, running operation op, hands its response to the caller
Returns(p, op) ==
  /\ proc[p].op = op
  /\ proc[p].pc # "done"
  /\ proc'[p].pc = "done"

C12_RejectedCreateChangesNothing ==
  [][(Started /\ StartedRec.op = "create") =>
       LET email == StartedRec.arg.email
           taken == \E i \in DOMAIN db : db[i].email = email IN
       /\ taken => StartedRec.result = "EmailTaken"
       /\ (~taken /\ email \notin WithAt) => StartedRec.result = "InvalidEmail"
       /\ (taken \/ email \notin WithAt) =>
            /\ db' = db
            /\ nextId' = nextId
            /\ nextTok' = nextTok
            /\ published' = published
            /\ proc' = proc]_vars

C12_Witness ==
  /\ ret.op = "create"
  /\ ret.result = "InvalidEmail"
  /\ ret.arg.email = "nomail"
  /\ \E i \in DOMAIN db : db[i].email = "b@x"
  /\ \A i \in DOMAIN db : db[i].email # "nomail"

\* C13: change_user_password on a missing user or with an old password that
\* is not the stored one returns False without raising, changes no row,
\* publishes nothing and is over; with the stored password as old it replaces
\* the stored password of that user by the new one and touches nothing else;
\* it returns True only after such a replacement, and no other step changes
\* a stored password
C13_ChangePassword ==
  [][/\ (Started /\ StartedRec.op = "change_password") =>
          LET u == StartedRec.uid
              match == u \in DOMAIN db
                       /\ db[u].hashed_password = StartedRec.arg.old IN
          /\ ~match =>
               /\ StartedRec.result = "false"
               /\ StartedRec.exc = "none"
               /\ db' = db
               /\ published' = published
               /\ proc' = proc
          /\ match =>
               /\ db' = [db EXCEPT ![u].hashed_password = StartedRec.arg.new]
               /\ StartedRec.result = "none"
     /\ \A p \in Procs :
          (Returns(p, "change_password") /\ ret'.result = "ok") =>
            proc[p].committed.hashed_password = proc[p].arg.new
     /\ \A i \in DOMAIN db \cap DOMAIN db' :
          db'[i].hashed_password # db[i].hashed_password =>
            /\ Started
            /\ StartedRec.op = "change_password"
            /\ StartedRec.uid = i
            /\ db[i].hashed_password = StartedRec.arg.old]_vars

C13_Witness ==
  /\ ret.op = "change_password"
  /\ ret.result = "false"
  /\ ret.uid \in DOMAIN db
  /\ ret.arg.old # db[ret.uid].hashed_password
  /\ ret.arg.old = "pw1"
  /\ ret.arg.new = "pw1"

\* the first two parts of C14: the id check and the frame of the commit
UpdateFrame ==
  /\ (Started /\ StartedRec.op = "update" /\ StartedRec.uid \notin DOMAIN db) =>
       /\ StartedRec.result = "NotFound"
       /\ db' = db
       /\ published' = published
       /\ proc' = proc
  /\ (Started /\ StartedRec.op = "update" /\ StartedRec.result = "none") =>
       LET u == StartedRec.uid
           a == StartedRec.arg IN
       /\ u \in DOMAIN db
       /\ DOMAIN db' = DOMAIN db
       /\ \A i \in DOMAIN db : i # u => db'[i] = db[i]
       /\ db'[u].email = IF a.email = Unset THEN db[u].email ELSE a.email
       /\ db'[u].name = IF a.name = Unset THEN db[u].name ELSE a.name
       /\ db'[u].surname = IF a.surname = Unset THEN db[u].surname ELSE a.surname
       /\ db'[u].id = db[u].id
       /\ db'[u].email_verified = db[u].email_verified
       /\ db'[u].hashed_password = db[u].hashed_password
       /\ db'[u].verify_email_token = db[u].verify_email_token
       /\ db'[u].verify_email_token_expiration = db[u].verify_email_token_expiration

\* C14: update on a missing id fails with NotFound and changes and publishes
\* nothing; on a stored id its commit changes exactly the supplied fields of
\* that row and no other row; and an update that returns has published the
\* UPDATE event of the row it committed
C14_UpdateFrameThenPublish ==
  [][/\ UpdateFrame
     /\ \A p \in Procs :
          (Returns(p, "update") /\ ret'.result = "ok") =>
            /\ proc[p].pc = "us_publish"
            /\ published' = Event("users", RABBIT_UPDATE_TYPE,
                                  Message(proc[p].committed, RABBIT_UPDATE_TYPE))]_vars

\* C15: delete of a stored id removes that row and no other, and get of an
\* id whose row is gone finds nothing in any later state (ids are never
\* assigned twice); the DELETE event of the delete carries the id and no other
\* field; delete of a missing id returns False, changes and publishes nothing
C15_Delete ==
  [][/\ (Started /\ StartedRec.op = "delete") =>
          LET u == StartedRec.uid IN
          /\ GetUser(db, u) = NoUser =>
               /\ StartedRec.result = "false"
               /\ StartedRec.exc = "none"
               /\ db' = db
               /\ published' = published
               /\ proc' = proc
          /\ GetUser(db, u) # NoUser =>
               /\ GetUser(db', u) = NoUser
               /\ DOMAIN db' = DOMAIN db \ {u}
               /\ \A i \in DOMAIN db' : db'[i] = db[i]
     /\ \A i \in 1..(nextId - 1) :
          GetUser(db, i) = NoUser => GetUser(db', i) = NoUser
     /\ \A p \in Procs :
          (UsPublished(p) /\ proc[p].op = "delete") =>
            /\ published'.type = RABBIT_DELETE_TYPE
            /\ DOMAIN published'.body = {"id"}
            /\ published'.body.id = proc[p].uid]_vars

C15_Witness ==
  /\ ret.op = "delete"
  /\ ret.result = "ok"
  /\ GetUser(db, ret.uid) = NoUser
  /\ ret.uid < nextId
  /\ published = Event("users", RABBIT_DELETE_TYPE, [id |-> ret.uid])

WithEmail(d, email) == {i \in DOMAIN d : d[i].email = email}

\* C17: no two creates in flight with the same email both have their row
\* stored under that email; a create that starts while the email is stored
\* (by a create still in flight or not) fails with EmailTaken and stores
\* nothing, and a create that commits stores the only row with its email
C17_CreateCheckInsertAtomic ==
  /\ [](\A p, q \in Procs :
          (/\ p # q
           /\ proc[p].op = "create"
           /\ proc[q].op = "create"
           /\ proc[p].arg.email = proc[q].arg.email) =>
             ~(/\ proc[p].uid \in WithEmail(db, proc[p].arg.email)
               /\ proc[q].uid \in WithEmail(db, proc[q].arg.email)))
  /\ [][(Started /\ StartedRec.op = "create") =>
          LET email == StartedRec.arg.email IN
          /\ WithEmail(db, email) # {} =>
               /\ StartedRec.result = "EmailTaken"
               /\ db' = db
          /\ StartedRec.result = "none" =>
               /\ WithEmail(db, email) = {}
               /\ WithEmail(db', email) = {StartedRec.uid}]_vars

C17_Witness ==
  /\ ret.op = "create"
  /\ ret.result = "EmailTaken"
  /\ \E p \in Procs :
       /\ proc[p].op = "create"
       /\ proc[p].arg.email = ret.arg.email
       /\ WithEmail(db, ret.arg.email) = {proc[p].uid}

\* C18: a change_user_password writes only in the step in which it found the
\* stored password equal to its old argument, and returns True only after
\* that write; one that starts with the same old argument while the write of
\* another on the same user is stored and that other is still in flight
\* returns False and writes nothing
C18_ChangePasswordAtomic ==
  [][/\ (Started /\ StartedRec.op = "change_password"
                 /\ StartedRec.result = "none") =>
          /\ StartedRec.uid \in DOMAIN db
          /\ db[StartedRec.uid].hashed_password = StartedRec.arg.old
          /\ db'[StartedRec.uid].hashed_password = StartedRec.arg.new
     /\ \A p \in Procs :
          (Returns(p, "change_password") /\ ret'.result = "ok") =>
            /\ proc[p].committed.id = proc[p].uid
            /\ proc[p].committed.hashed_password = proc[p].arg.new
     /\ \A q \in Procs :
          (/\ Started
           /\ StartedRec.op = "change_password"
           /\ proc[q].op = "change_password"
           /\ proc[q].uid = StartedRec.uid
           /\ proc[q].arg.old = StartedRec.arg.old
           /\ proc[q].arg.new # proc[q].arg.old
           /\ GetUser(db, proc[q].uid).hashed_password = proc[q].arg.new) =>
             /\ StartedRec.result = "false"
             /\ db' = db]_vars

C18_Witness ==
  /\ ret.op = "change_password"
  /\ ret.result = "false"
  /\ \E q \in Procs :
       /\ proc[q].op = "change_password"
       /\ proc[q].uid = ret.uid
       /\ proc[q].arg.old = ret.arg.old
       /\ proc[q].arg.new # ret.arg.new
       /\ GetUser(db, ret.uid).hashed_password = proc[q].arg.new

\* C19: the verification email that send_verification_email publishes is
\* addressed to the email of the row as the token was committed onto it
C19_RecipientIsStoredEmail ==
  [][\A p \in Procs :
       (/\ proc[p].pc = "sve_publish"
        /\ proc'[p].pc = "done"
        /\ ret'.result = "ok") =>
          /\ published'.topic = "email"
          /\ proc[p].committed.verify_email_token = proc[p].token
          /\ published'.body.to = proc[p].committed.email]_vars

Spec == Init /\ [][Next]_vars
====
